---- MODULE Spec2Model ----
(***************************************************************************)
(* Request lifecycle and announce scheduling of the grenache Link client   *)
(* (src/index.js): the request registry (_reqs), reply dispatch            *)
(* (handleReply), bounded retry (async.retry in request), the lookup       *)
(* cache (an LRU bounded in size and age) and the jittered periodic        *)
(* announce scheduler (startAnnouncing / stopAnnouncing / stop).           *)
(*                                                                         *)
(* JavaScript values are modelled as follows.                              *)
(*   undefined / null error : "null"                                       *)
(*   undefined data         : "undef"  (the only falsy data value)         *)
(*   []                     : "empty"  (truthy in JavaScript)              *)
(*   a non-empty array      : "peers", "peers2"                            *)
(*   a string               : "text"   (truthy, not an array)              *)
(*   a Map                  : a function, Map.has(k) is k \in DOMAIN m      *)
(*   one time unit of the clock stands for 5000 ms.                        *)
(***************************************************************************)
EXTENDS Integers, Sequences, FiniteSets, TLC

VARIABLES
  now,        \* Date.now(), in time units
  cache,      \* this.cache.lookup: the entries of the LRU, least recent first
  reqs,       \* this._reqs: rid -> pending request
  announces,  \* this._announces: id -> announce descriptor (index into infos)
  infos,      \* every info object ever created by startAnnouncing, with its closure
  calls,      \* every invocation of request(): the state of its async.retry
  net,        \* rids whose transport exchange (request.post) is outstanding
  nextRid,    \* the next value uuidv4() returns
  fired,      \* rid -> number of times req.cb was invoked for it
  thrown,     \* TRUE once an exception escaped a transport completion handler
  lastCallAt, \* the time of the most recent call of request()
  interval,   \* startAnnouncing's interval: (opts && opts.interval) || 120000
  ms,         \* the delay reann computed last, in ms; 0 before the first
  ev          \* the last call of startAnnouncing / stopAnnouncing / stop /
              \* handleReply made from outside: its arguments (for handleReply
              \* whether the id was registered when it was called) and its
              \* return value

vars == <<now, cache, reqs, announces, infos, calls, net, nextRid, fired, thrown,
          lastCallAt, interval, ms, ev>>

\* ------------------------------------------------------------------ bounds
MaxRids  == 4    \* correlation ids handed out
MaxCalls == 2    \* invocations of request()
MaxInfos == 2    \* announce descriptors created
MaxTime  == 3    \* clock ticks
\* The configuration the Link is constructed with (conf overrides the defaults
\* of lines 17-18): a cache of one entry that lives two time units.
lruMaxSizeLookup == 1
lruMaxAgeLookup  == 2
MaxInterval == 16  \* the largest opts.interval given to startAnnouncing, in ms
RandomSteps == 16  \* Math.random() returns n / RandomSteps, n in 0..RandomSteps-1

Keys  == {"k1", "k2"}
Ports == {1337}
Data  == {"undef", "empty", "peers"}
Rids  == 1..MaxRids
\* data.seq and opts.keys as given to putMutable
SeqArgs  == {"absent", "zero", "one"}
KeysArgs == {"absent", "none", "public", "secret", "both"}

\* the default retry count of lookup and announce
DefaultRetry == 3

\* the default interval of a schedule: 2 * 60 * 1000 ms
DefaultInterval == 120000

\* ------------------------------------------------------------------ values
Truthy(data) == data # "undef"
isNonEmptyArray(data) == data \in {"peers", "peers2"}

\* `${type}:${JSON.stringify(payload)}`: the type and the payload determine
\* the string, and distinct (type, payload) pairs give distinct strings
getRequestHash(type, payload) == <<type, payload>>

\* port + ':' + key, port a number
AnnId(key, port) == <<port, key>>

\* ------------------------------------------------------------------ the LRU
cacheOpts_noMaxAge == [max |-> lruMaxSizeLookup, maxAge |-> 0]

\* init: the options of the cache of type 'lookup'
cacheOpts == [max |-> lruMaxSizeLookup, maxAge |-> lruMaxAgeLookup]

\* the types that have a cache: _.each(['lookup'], ...)
CacheTypes == {"lookup"}

LruIndex(c, key) ==
  IF \E i \in 1..Len(c) : c[i].key = key
  THEN CHOOSE i \in 1..Len(c) : c[i].key = key
  ELSE 0

LruRemove(c, i) == SubSeq(c, 1, i - 1) \o SubSeq(c, i + 1, Len(c))

\* an entry is dead once older than maxAge (no age bound when maxAge is falsy)
LruExpired(e, t) == cacheOpts.maxAge # 0 /\ (t - e.modified) > cacheOpts.maxAge

\* cache.get(key) at time t: the value (or "undef") and the cache afterwards;
\* an expired entry is removed, a live one becomes the most recent.  born is
\* the time the entry served was written, expired whether a dead entry was met.
LruGet(c, key, t) ==
  LET i == LruIndex(c, key) IN
  IF i = 0 THEN [cache |-> c, val |-> "undef", born |-> t, expired |-> FALSE]
  ELSE IF LruExpired(c[i], t)
       THEN [cache |-> LruRemove(c, i), val |-> "undef", born |-> t,
             expired |-> TRUE]
       ELSE [cache |-> Append(LruRemove(c, i), c[i]), val |-> c[i].value,
             born |-> c[i].born, expired |-> FALSE]

\* cache.set(key, value) at time t: a present key is refreshed, a new key
\* evicts the least recent entry when the cache is full
LruSet(c, key, value, t) ==
  LET i == LruIndex(c, key)
      e == [key |-> key, value |-> value, born |-> t,
            modified |-> IF cacheOpts.maxAge # 0 THEN t ELSE 0]
  IN IF i # 0 THEN Append(LruRemove(c, i), e)
     ELSE IF Len(c) = cacheOpts.max THEN Append(Tail(c), e)
     ELSE Append(c, e)

\* ------------------------------------------------------------------ state
\* The engine's state as one value, so that a handler is a function on it.
St == [cache |-> cache, reqs |-> reqs, announces |-> announces, infos |-> infos,
       calls |-> calls, net |-> net, nextRid |-> nextRid, fired |-> fired,
       thrown |-> thrown, lastCallAt |-> lastCallAt]

Commit(S) ==
  /\ cache' = S.cache
  /\ reqs' = S.reqs
  /\ announces' = S.announces
  /\ infos' = S.infos
  /\ calls' = S.calls
  /\ net' = S.net
  /\ nextRid' = S.nextRid
  /\ fired' = S.fired
  /\ thrown' = S.thrown
  /\ lastCallAt' = S.lastCallAt
  /\ UNCHANGED <<interval, ms>>

NoEv == [op |-> "none", key |-> "", port |-> 0, registered |-> FALSE,
         args |-> <<>>, ret |-> "undefined"]

\* ------------------------------------------------------------------ requests
\* newRequest: the pending request of call c, under correlation id rid
newRequest(rid, type, payload, c) ==
  [rid |-> rid, type |-> type, payload |-> payload, call |-> c,
   qhash |-> getRequestHash(type, payload)]

addRequest(S, req) == [S EXCEPT !.reqs = (req.rid :> req) @@ @]

delRequest(S, rid) ==
  [S EXCEPT !.reqs = [r \in (DOMAIN @) \ {rid} |-> @[r]]]

\* a caller's own callback: counted, with the arguments it received
userCb(S, c, err, res) ==
  [S EXCEPT !.calls[c].cbs = @ + 1, !.calls[c].uerr = err, !.calls[c].ures = res]

\* lookup's callback testing _.isArray(res) only
lookupCb_arrayOnly(S, c, err, res) ==
  IF err # "null" THEN userCb(S, c, err, "undef")
  ELSE IF res \notin {"empty", "peers", "peers2"}
       THEN userCb(S, c, "ERR_GRAPE_LOOKUP_EMPTY", "undef")
  ELSE userCb(S, c, "null", res)

\* the callback lookup() hands to request()
lookupCb(S, c, err, res) ==
  IF err # "null" THEN userCb(S, c, err, "undef")
  ELSE IF ~isNonEmptyArray(res) THEN userCb(S, c, "ERR_GRAPE_LOOKUP_EMPTY", "undef")
  ELSE userCb(S, c, "null", res)

\* another descriptor of d's (key, port) pair is active
OtherLive(S, d) ==
  \E d2 \in DOMAIN S.infos :
    /\ d2 # d /\ ~S.infos[d2].stopped
    /\ S.infos[d2].key = S.infos[d].key /\ S.infos[d2].port = S.infos[d].port

\* reann up to the stopped check: cb runs once and is cleared
reannCb(S, d) ==
  [S.infos[d] EXCEPT !.cbCount = IF S.infos[d].cb THEN @ + 1 ELSE @,
                     !.cb = FALSE, !.reanns = @ + 1,
                     !.late = IF S.infos[d].stopped THEN @ + 1 ELSE @,
                     !.lateLive = IF S.infos[d].stopped /\ OtherLive(S, d)
                                  THEN @ + 1 ELSE @]

\* info.timeout = setTimeout(ann, ms)
setTimeout(info) == [info EXCEPT !.timeout = TRUE, !.timers = @ + 1]

\* clearTimeout(info.timeout)
clearTimeout(info) ==
  [info EXCEPT !.timeout = FALSE, !.timers = IF info.timeout THEN @ - 1 ELSE @]

reann_noStoppedCheck(S, d, err) ==
  [S EXCEPT !.infos[d] = setTimeout(reannCb(S, d))]

reann_keepsCb(S, d, err) ==
  LET i1 == [reannCb(S, d) EXCEPT !.cb = S.infos[d].cb]
  IN [S EXCEPT !.infos[d] = IF i1.stopped THEN i1 ELSE setTimeout(i1)]

\* reann reading the descriptor of the pair from _announces instead of its
\* own closure
reann_looksUpById(S, d, err) ==
  LET id == AnnId(S.infos[d].key, S.infos[d].port)
      S1 == [S EXCEPT !.infos[d] = reannCb(S, d)]
  IN IF id \in DOMAIN S1.announces
     THEN [S1 EXCEPT !.infos[S1.announces[id]] = setTimeout(@)]
     ELSE S1

\* reann of descriptor d: the completion of one of its announce requests.
\* The caller's callback runs once and is cleared; unless the descriptor is
\* stopped the next attempt is scheduled (info.timeout = setTimeout(ann, ms)).
reann(S, d, err) ==
  LET i1 == reannCb(S, d)
  IN [S EXCEPT !.infos[d] = IF i1.stopped THEN i1 ELSE setTimeout(i1)]

\* the final callback of a request(): reann for a scheduler's announce,
\* lookup's result shaping for a lookup, the caller's callback otherwise
requestCb(S, c, err, res) ==
  LET call == S.calls[c] IN
  IF call.owner # 0 THEN reann(S, call.owner, err)
  ELSE IF call.type = "lookup" THEN lookupCb(S, c, err, res)
  ELSE userCb(S, c, err, res)

retryTaskCb_offByOne(S, c, err, res) ==
  LET call == S.calls[c]
      S1 == [S EXCEPT !.calls[c].log = Append(@, <<err, res>>)]
  IN IF err # "null" /\ call.attempt <= call.times
     THEN [S1 EXCEPT !.calls[c].attempt = @ + 1, !.calls[c].status = "retrywait"]
     ELSE requestCb([S1 EXCEPT !.calls[c].status = "done"], c, err, res)

\* reports every failed attempt to the final callback, and retries as well
retryTaskCb_reportsEveryFailure(S, c, err, res) ==
  LET call == S.calls[c]
      S1 == [S EXCEPT !.calls[c].log = Append(@, <<err, res>>)]
  IN IF err # "null" /\ call.attempt < call.times
     THEN requestCb([S1 EXCEPT !.calls[c].attempt = @ + 1,
                               !.calls[c].status = "retrywait"], c, err, res)
     ELSE requestCb([S1 EXCEPT !.calls[c].status = "done"], c, err, res)

\* retries after every failed attempt, whatever their number
retryTaskCb_neverGivesUp(S, c, err, res) ==
  LET S1 == [S EXCEPT !.calls[c].log = Append(@, <<err, res>>)]
  IN IF err # "null"
     THEN [S1 EXCEPT !.calls[c].attempt = @ + 1, !.calls[c].status = "retrywait"]
     ELSE requestCb([S1 EXCEPT !.calls[c].status = "done"], c, err, res)

\* async.retry(times, task, cb): the callback it gives to one attempt.  A
\* failed attempt short of `times` schedules the next one; otherwise the
\* final callback receives this attempt's error and result.
retryTaskCb(S, c, err, res) ==
  LET call == S.calls[c]
      S1 == [S EXCEPT !.calls[c].log = Append(@, <<err, res>>)]
  IN IF err # "null" /\ call.attempt < call.times
     THEN [S1 EXCEPT !.calls[c].attempt = @ + 1, !.calls[c].status = "retrywait"]
     ELSE requestCb([S1 EXCEPT !.calls[c].status = "done"], c, err, res)

\* _request, cache miss: register a fresh pending request and post it
sendRequest(S, c) ==
  LET call == S.calls[c]
      req == newRequest(S.nextRid, call.type, call.payload, c)
      S1 == addRequest(S, req)
      S2 == [S1 EXCEPT !.net = @ \cup {req.rid}, !.nextRid = @ + 1,
                       !.calls[c].status = "inflight", !.calls[c].sent = @ + 1]
  IN IF call.owner # 0 /\ S.infos[call.owner].stopped
     THEN [S2 EXCEPT !.infos[call.owner].postStop = @ + 1]
     ELSE S2

_request_noCacheCheck(S, c, t) == sendRequest(S, c)

\* _request: one attempt of call c at time t
_request(S, c, t) ==
  LET call == S.calls[c] IN
  IF call.type \in CacheTypes
  THEN LET g == LruGet(S.cache, getRequestHash(call.type, call.payload), t)
           S1 == [S EXCEPT !.cache = g.cache]
       IN IF Truthy(g.val)
          THEN retryTaskCb([S1 EXCEPT !.calls[c].hits = @ + 1,
                                      !.calls[c].hitAge = t - g.born],
                           c, "null", g.val)
          ELSE sendRequest([S1 EXCEPT !.calls[c].stale = @ \/ g.expired], c)
  ELSE sendRequest(S, c)

\* request(type, payload, opts, cb): a new async.retry of (opts.retry || 1)
\* attempts, the first attempt made at once
request(S, type, payload, retry, owner, t) ==
  LET call == [type |-> type, payload |-> payload, owner |-> owner,
               times |-> IF retry = 0 THEN 1 ELSE retry,
               attempt |-> 1, status |-> "new", sent |-> 0, hits |-> 0,
               hitAge |-> -1, stale |-> FALSE, log |-> <<>>, cbs |-> 0,
               uerr |-> "null", ures |-> "undef"]
      S1 == [S EXCEPT !.calls = Append(@, call), !.lastCallAt = t]
  IN _request(S1, Len(S1.calls), t)

RECURSIVE handleReply_delAfterCb(_, _, _, _, _, _)
handleReply_delAfterCb(S, rid, err, data, t, nested) ==
  IF rid \notin DOMAIN S.reqs THEN S
  ELSE LET req == S.reqs[rid]
           S1 == IF err = "null" /\ Truthy(data) /\ req.type \in CacheTypes
                 THEN [S EXCEPT !.cache = LruSet(@, req.qhash, data, t)]
                 ELSE S
           S3 == IF nested > 0
                 THEN handleReply_delAfterCb(S1, rid, err, data, t, nested - 1)
                 ELSE S1
           S4 == [S3 EXCEPT !.fired[rid] = @ + 1]
       IN delRequest(retryTaskCb(S4, req.call, err, data), rid)

handleReply_noCacheSet(S, rid, err, data, t, nested) ==
  IF rid \notin DOMAIN S.reqs THEN S
  ELSE LET req == S.reqs[rid]
           S2 == delRequest(S, rid)
           S4 == [S2 EXCEPT !.fired[rid] = @ + 1]
       IN retryTaskCb(S4, req.call, err, data)

\* handleReply(rid, err, data) at time t.  `nested` is the number of times
\* the request's callback calls handleReply again for the same rid while it
\* runs (a re-entrant reply).
RECURSIVE handleReply(_, _, _, _, _, _)
handleReply(S, rid, err, data, t, nested) ==
  IF rid \notin DOMAIN S.reqs THEN S
  ELSE LET req == S.reqs[rid]
           S1 == IF err = "null" /\ Truthy(data) /\ req.type \in CacheTypes
                 THEN [S EXCEPT !.cache = LruSet(@, req.qhash, data, t)]
                 ELSE S
           S2 == delRequest(S1, rid)
           S3 == IF nested > 0
                 THEN handleReply(S2, rid, err, data, t, nested - 1)
                 ELSE S2
           S4 == [S3 EXCEPT !.fired[rid] = @ + 1]
       IN retryTaskCb(S4, req.call, err, data)

\* What the transport (the request package) reports for one exchange:
\* (err, res, resData).  A connection error and a timeout come without a
\* response object.
Outcomes ==
  {[err |-> "null", status |-> "2xx", body |-> b] : b \in Data}
  \cup {[err |-> "null", status |-> "5xx", body |-> "undef"],
        [err |-> "ECONNREFUSED", status |-> "none", body |-> "undef"],
        [err |-> "ETIMEDOUT", status |-> "none", body |-> "undef"]}

\* the outcomes that differ for an announce request: its reply carries no
\* data the scheduler reads
AnnounceOutcomes ==
  {out \in Outcomes : out.body = "peers" \/ out.status = "5xx" \/ out.err = "ETIMEDOUT"}

\* the outcomes that differ for the cache: each kind of data, and an error
CacheOutcomes == {out \in Outcomes : out.err = "null"}

\* the outcomes that differ for a request and its retries: a reply with
\* data (an empty list, a list of peers), an error status, a connection
\* error, a timeout
RequestOutcomes == {out \in Outcomes : out.status = "2xx" => Truthy(out.body)}

\* the data a reply to a lookup may carry: nothing, an empty list, a string,
\* one list of peers or another
LookupData == Data \cup {"text", "peers2"}

\* the outcomes that differ for lookup's callback: each kind of data, and
\* an error
LookupOutcomes ==
  {[err |-> "null", status |-> "2xx", body |-> b] : b \in LookupData}
  \cup {out \in Outcomes : out.status = "5xx"}

\* the outcomes that differ for stop(): a reply with data, an error
StopOutcomes == {out \in Outcomes : out.body = "peers" \/ out.status = "5xx"}

\* post's completion handler: what it passes on to its callback, or a throw
\* (res.statusCode read off an undefined res)
post(out) ==
  IF out.err = "ETIMEDOUT"
  THEN IF out.status = "none"
       THEN [throw |-> TRUE, err |-> "null", msg |-> "undef"]
       ELSE [throw |-> FALSE, err |-> "ERR_TIMEOUT", msg |-> "undef"]
  ELSE IF out.status \notin {"none", "2xx"}
       THEN [throw |-> FALSE, err |-> "ERR_STATUS", msg |-> "undef"]
       ELSE [throw |-> FALSE, err |-> out.err, msg |-> out.body]

\* putMutable(data, opts, cb), all three given.  seq is data.seq ("absent",
\* "zero" for 0, "one" for a positive number), keys is opts.keys ("absent",
\* or the members it has: "none", "public", "secret", "both").  The state
\* afterwards and what the caller sees: an error given to cb, or an
\* exception thrown.  Reading publicKey off an absent opts.keys throws a
\* TypeError; `ed` is bound nowhere in the module, so signing throws a
\* ReferenceError before put is reached.
putMutable(S, seq, keys) ==
  IF seq \in {"absent", "zero"} THEN [S |-> S, ret |-> "cb(ERR_MISSING_SEQ)"]
  ELSE IF keys = "absent" THEN [S |-> S, ret |-> "throw TypeError"]
  ELSE IF keys # "both" THEN [S |-> S, ret |-> "cb(ERR_MISSING_KEY)"]
  ELSE [S |-> S, ret |-> "throw ReferenceError"]

\* ------------------------------------------------------------------ announcing
\* (opts && opts.interval) || 2 * 60 * 1000; 0 stands for no interval given
intervalOf(optInterval) ==
  IF optInterval = 0 THEN DefaultInterval ELSE optInterval

\* Math.ceil(p / q) for positive integers
CeilDiv(p, q) == (p + q - 1) \div q

\* the delay with Math.floor in place of Math.ceil
reannDelay_floor(i, n) == (i * (RandomSteps + 2 * n)) \div (2 * RandomSteps)

\* reann's delay Math.ceil(0.5 * interval + Math.random() * interval) for
\* interval i and the draw n / RandomSteps, in exact arithmetic:
\* 0.5 * i + (n / R) * i = i * (R + 2 * n) / (2 * R)
reannDelay(i, n) == CeilDiv(i * (RandomSteps + 2 * n), 2 * RandomSteps)

EmptyMap == [x \in {} |-> 0]

MapRemove(m, k) == [x \in (DOMAIN m) \ {k} |-> m[x]]

MapValues(m) == {m[x] : x \in DOMAIN m}

\* announce(key, port, opts, cb): request('announce', [key, port], {retry: 3}, cb)
announce(S, key, port, owner, t) ==
  request(S, "announce", <<key, port>>, DefaultRetry, owner, t)

\* ann of descriptor d: one announce attempt of the schedule, reann its callback
ann(S, d, t) ==
  announce([S EXCEPT !.infos[d].anns = @ + 1], S.infos[d].key, S.infos[d].port, d, t)

\* the info object of a new descriptor with its closure (key, port, cb).
\* timeout: info.timeout refers to a pending timer; timers: the timers
\* setTimeout(ann, ms) of the closure that are pending.  History: anns, reanns
\* (runs of ann and reann), cbCount (runs of cb), late (runs of reann while
\* stopped), lateLive (of those, the runs while another descriptor of the
\* pair was active), busyAtStop (a request was under way when it was
\* stopped), postStop (exchanges sent for it since it was stopped).
newInfo(key, port, hasCb) ==
  [key |-> key, port |-> port, stopped |-> FALSE, timeout |-> FALSE,
   timers |-> 0,
   cb |-> hasCb, hadCb |-> hasCb, cbCount |-> 0, anns |-> 0, reanns |-> 0,
   late |-> 0, lateLive |-> 0, busyAtStop |-> FALSE, postStop |-> 0]

startAnnouncing_noHasCheck(S, key, port, hasCb, t) ==
  LET id == AnnId(key, port)
      d  == Len(S.infos) + 1
      S1 == [S EXCEPT !.infos = Append(@, newInfo(key, port, hasCb))]
      S2 == ann(S1, d, t)
  IN [S |-> [S2 EXCEPT !.announces = (id :> d) @@ @], ret |-> "undefined"]

\* startAnnouncing(key, port, opts, cb): the state afterwards and the value
\* returned
startAnnouncing(S, key, port, hasCb, t) ==
  LET id == AnnId(key, port) IN
  IF id \in DOMAIN S.announces THEN [S |-> S, ret |-> "false"]
  ELSE LET d  == Len(S.infos) + 1
           S1 == [S EXCEPT !.infos = Append(@, newInfo(key, port, hasCb))]
           S2 == ann(S1, d, t)
       IN [S |-> [S2 EXCEPT !.announces = (id :> d) @@ @], ret |-> "undefined"]

\* descriptor d has an announce request under way
Busy(S, d) ==
  \E c \in DOMAIN S.calls : S.calls[c].owner = d /\ S.calls[c].status # "done"

\* info.stopped = true
setStopped(S, d) ==
  [S.infos[d] EXCEPT !.stopped = TRUE, !.busyAtStop = Busy(S, d)]

stopAnnouncing_noClearTimeout(S, key, port) ==
  LET id == AnnId(key, port) IN
  IF id \notin DOMAIN S.announces THEN [S |-> S, ret |-> "false"]
  ELSE LET d == S.announces[id] IN
       [S |-> [S EXCEPT !.announces = MapRemove(@, id),
                        !.infos[d] = setStopped(S, d)],
        ret |-> "undefined"]

stopAnnouncing_idWithoutKey(S, key, port) ==
  IF \A id \in DOMAIN S.announces : id[1] # port THEN [S |-> S, ret |-> "false"]
  ELSE LET id == CHOOSE i \in DOMAIN S.announces : i[1] = port
           d  == S.announces[id]
       IN [S |-> [S EXCEPT !.announces = MapRemove(@, id),
                           !.infos[d] = clearTimeout(setStopped(S, d))],
           ret |-> "undefined"]

\* stopAnnouncing(key, port): the state afterwards and the value returned
stopAnnouncing(S, key, port) ==
  LET id == AnnId(key, port) IN
  IF id \notin DOMAIN S.announces THEN [S |-> S, ret |-> "false"]
  ELSE LET d == S.announces[id] IN
       [S |-> [S EXCEPT !.announces = MapRemove(@, id),
                        !.infos[d] = clearTimeout(setStopped(S, d))],
        ret |-> "undefined"]

\* stop() leaving the caches as they are
stop_keepsCache(S) ==
  LET live == MapValues(S.announces) IN
  [S EXCEPT !.infos = [d \in DOMAIN @ |->
                         IF d \in live THEN clearTimeout(setStopped(S, d))
                         ELSE @[d]],
            !.announces = EmptyMap]

\* stop() clearing the registry as well
stop_clearsReqs(S) ==
  LET live == MapValues(S.announces) IN
  [S EXCEPT !.cache = <<>>,
            !.reqs = EmptyMap,
            !.infos = [d \in DOMAIN @ |->
                         IF d \in live THEN clearTimeout(setStopped(S, d))
                         ELSE @[d]],
            !.announces = EmptyMap]

\* stop(): clear every cache, stop every descriptor of _announces, clear it
stop(S) ==
  LET live == MapValues(S.announces) IN
  [S EXCEPT !.cache = <<>>,
            !.infos = [d \in DOMAIN @ |->
                         IF d \in live THEN clearTimeout(setStopped(S, d))
                         ELSE @[d]],
            !.announces = EmptyMap]

\* ------------------------------------------------------------------ actions
InitEngine ==
  /\ now = 0
  /\ cache = <<>>
  /\ reqs = EmptyMap
  /\ announces = EmptyMap
  /\ infos = <<>>
  /\ calls = <<>>
  /\ net = {}
  /\ nextRid = 1
  /\ fired = [r \in Rids |-> 0]
  /\ thrown = FALSE
  /\ lastCallAt = 0
  /\ ev = NoEv

\* The state after construction.  The schedules of the engine run with the
\* default interval; their timers fire at any later moment, whatever the
\* delay.
Init ==
  /\ InitEngine
  /\ interval = DefaultInterval
  /\ ms = 0

\* a new request() may be made and may send
CanCall == Len(calls) < MaxCalls /\ nextRid <= MaxRids

\* lookup(key, opts, cb), opts.retry absent (0 here: the default 3) or given
Lookup(k, r) ==
  /\ CanCall
  /\ Commit(request(St, "lookup", k, IF r = 0 THEN DefaultRetry ELSE r, 0, now))
  /\ ev' = NoEv
  /\ UNCHANGED now

\* get(hash, cb)
Get(h) ==
  /\ CanCall
  /\ Commit(request(St, "get", h, 0, 0, now))
  /\ ev' = NoEv
  /\ UNCHANGED now

\* put(opts, cb)
Put(v) ==
  /\ CanCall
  /\ Commit(request(St, "put", v, 0, 0, now))
  /\ ev' = NoEv
  /\ UNCHANGED now

PutMutable(seq, keys) ==
  /\ LET r == putMutable(St, seq, keys) IN
       /\ Commit(r.S)
       /\ ev' = [NoEv EXCEPT !.op = "putMutable", !.args = <<seq, keys>>,
                             !.ret = r.ret]
  /\ UNCHANGED now

\* announce(key, port, cb) called by the user
Announce(k, p) ==
  /\ CanCall
  /\ Commit(announce(St, k, p, 0, now))
  /\ ev' = NoEv
  /\ UNCHANGED now

StartAnnouncing(k, p, hasCb) ==
  /\ AnnId(k, p) \in DOMAIN announces \/ (CanCall /\ Len(infos) < MaxInfos)
  /\ LET r == startAnnouncing(St, k, p, hasCb, now) IN
       /\ Commit(r.S)
       /\ ev' = [NoEv EXCEPT !.op = "startAnnouncing", !.key = k, !.port = p,
                             !.ret = r.ret]
  /\ UNCHANGED now

StopAnnouncing(k, p) ==
  /\ LET r == stopAnnouncing(St, k, p) IN
       /\ Commit(r.S)
       /\ ev' = [NoEv EXCEPT !.op = "stopAnnouncing", !.key = k, !.port = p,
                             !.ret = r.ret]
  /\ UNCHANGED now

Stop ==
  /\ Commit(stop(St))
  /\ ev' = [NoEv EXCEPT !.op = "stop"]
  /\ UNCHANGED now

\* the timer of descriptor d expires: ann()
TimerFire(d) ==
  /\ infos[d].timers > 0
  /\ CanCall
  /\ Commit(ann([St EXCEPT !.infos[d].timers = @ - 1,
                           !.infos[d].timeout = @ /\ infos[d].timers > 1],
                 d, now))
  /\ ev' = NoEv
  /\ UNCHANGED now

\* the timer async.retry set after a failed attempt of call c expires
RetryFire(c) ==
  /\ calls[c].status = "retrywait"
  /\ nextRid <= MaxRids
  /\ Commit(_request(St, c, now))
  /\ ev' = NoEv
  /\ UNCHANGED now

\* the exchange of rid completes with outcome out: post's completion handler
\* and, through its callback, handleReply
TransportComplete(rid, out, nested) ==
  /\ rid \in net
  /\ LET S0 == [St EXCEPT !.net = @ \ {rid}]
         p  == post(out)
     IN IF p.throw
        THEN Commit([S0 EXCEPT !.thrown = TRUE])
        ELSE Commit(handleReply(S0, rid, p.err, p.msg, now, nested))
  /\ ev' = IF nested > 0 /\ ~post(out).throw
           THEN [NoEv EXCEPT !.op = "reentrantReply",
                             !.registered = rid \in DOMAIN reqs]
           ELSE NoEv
  /\ UNCHANGED now

\* handleReply called for an id whose exchange is not outstanding (a
\* duplicate, late or unknown reply)
LateReply(rid, err, data) ==
  /\ rid < nextRid
  /\ rid \notin net
  /\ Commit(handleReply(St, rid, err, data, now, 0))
  /\ ev' = [NoEv EXCEPT !.op = "handleReply", !.registered = rid \in DOMAIN reqs]
  /\ UNCHANGED now

Tick ==
  /\ now < MaxTime
  /\ now' = now + 1
  /\ ev' = NoEv
  /\ UNCHANGED <<cache, reqs, announces, infos, calls, net, nextRid, fired, thrown,
                 lastCallAt, interval, ms>>

\* reann computes the delay of the next timer from the draw n / RandomSteps
Reschedule(n) ==
  /\ ms' = reannDelay(interval, n)
  /\ UNCHANGED <<now, cache, reqs, announces, infos, calls, net, nextRid, fired,
                 thrown, lastCallAt, interval, ev>>

Next ==
  \/ \E k \in Keys, r \in {0, 1, 2} : Lookup(k, r)
  \/ \E h \in {"h1"} : Get(h)
  \/ \E v \in {"v1"} : Put(v)
  \/ \E seq \in SeqArgs, keys \in KeysArgs : PutMutable(seq, keys)
  \/ \E k \in Keys, p \in Ports : Announce(k, p)
  \/ \E k \in Keys, p \in Ports, hasCb \in BOOLEAN : StartAnnouncing(k, p, hasCb)
  \/ \E k \in Keys, p \in Ports : StopAnnouncing(k, p)
  \/ Stop
  \/ \E d \in DOMAIN infos : TimerFire(d)
  \/ \E c \in DOMAIN calls : RetryFire(c)
  \/ \E rid \in Rids, out \in Outcomes, nested \in {0, 1} : TransportComplete(rid, out, nested)
  \/ \E rid \in 0..MaxRids, e \in {"null", "ERR_STATUS"} : LateReply(rid, e, IF e = "null" THEN "peers" ELSE "undef")
  \/ Tick
  \/ \E n \in 0..(RandomSteps - 1) : Reschedule(n)

Spec == Init /\ [][Next]_vars

\* The announce scheduler alone: the schedules, their announce requests and
\* the transport.  "k1" is announced with a callback, "k2" without one.
NextAnnounce ==
  \/ \E k \in Keys, p \in Ports : StartAnnouncing(k, p, k = "k1")
  \/ \E k \in Keys, p \in Ports : StopAnnouncing(k, p)
  \/ Stop
  \/ \E d \in DOMAIN infos : TimerFire(d)
  \/ \E c \in DOMAIN calls : RetryFire(c)
  \/ \E rid \in Rids, out \in AnnounceOutcomes : TransportComplete(rid, out, 0)

SpecAnnounce == Init /\ [][NextAnnounce]_vars

\* The request engine alone: the facade operations, the registry, the
\* retries, the transport and replies for ids that are not outstanding.
NextRequest ==
  \/ Lookup("k1", 0)
  \/ \E h \in {"h1"} : Get(h)
  \/ Stop
  \/ \E c \in DOMAIN calls : RetryFire(c)
  \/ \E rid \in Rids, out \in RequestOutcomes, nested \in {0, 1} : TransportComplete(rid, out, nested)
  \/ \E rid \in 0..MaxRids, e \in {"null", "ERR_STATUS"} : LateReply(rid, e, IF e = "null" THEN "peers" ELSE "undef")

SpecRequest == Init /\ [][NextRequest]_vars

\* The request engine with a transport that completes every exchange and an
\* event loop that runs every retry timer.
SpecRequestLive ==
  /\ SpecRequest
  /\ \A rid \in Rids :
       WF_vars(\E out \in RequestOutcomes : TransportComplete(rid, out, 0))
  /\ WF_vars(\E c \in 1..MaxCalls : c \in DOMAIN calls /\ RetryFire(c))

\* The lookup cache alone: lookups, their retries and replies, the clock
\* and stop().
NextCache ==
  \/ \E k \in Keys : Lookup(k, 2)
  \/ Stop
  \/ \E c \in DOMAIN calls : RetryFire(c)
  \/ \E rid \in Rids, out \in CacheOutcomes : TransportComplete(rid, out, 0)
  \/ Tick

SpecCache == Init /\ [][NextCache]_vars

\* The facade: one request of each type, putMutable, the retries and the
\* transport.
NextFacade ==
  \/ Lookup("k1", 1)
  \/ Get("h1")
  \/ Put("v1")
  \/ Announce("k1", 1337)
  \/ \E seq \in SeqArgs, keys \in KeysArgs : PutMutable(seq, keys)
  \/ \E c \in DOMAIN calls : RetryFire(c)
  \/ \E rid \in Rids, out \in Outcomes : TransportComplete(rid, out, 0)

SpecFacade == Init /\ [][NextFacade]_vars

\* Shutdown: lookups filling the cache, a schedule, and stop() at any moment
\* of either.  stopAnnouncing is left out, so that a stopped descriptor was
\* stopped by stop(); the clock stands still and one key is looked up, so
\* that nothing but stop() removes a cache entry.
NextStop ==
  \/ Lookup("k1", 1)
  \/ StartAnnouncing("k1", 1337, TRUE)
  \/ Stop
  \/ \E d \in DOMAIN infos : TimerFire(d)
  \/ \E c \in DOMAIN calls : RetryFire(c)
  \/ \E rid \in Rids, out \in StopOutcomes : TransportComplete(rid, out, 0)

SpecStop == Init /\ [][NextStop]_vars

\* The delay of the re-announce timer alone: a schedule started with no
\* interval or with one of 1..MaxInterval ms, and the delays reann computes
\* for it from the draws of Math.random().
InitDelay ==
  /\ InitEngine
  /\ interval \in {intervalOf(o) : o \in 0..MaxInterval}
  /\ ms = 0

NextDelay == \E n \in 0..(RandomSteps - 1) : Reschedule(n)

SpecDelay == InitDelay /\ [][NextDelay]_vars

\* lookup alone: lookups, their retries and every kind of reply
NextLookup ==
  \/ \E k \in Keys : Lookup(k, 2)
  \/ \E c \in DOMAIN calls : RetryFire(c)
  \/ \E rid \in Rids, out \in LookupOutcomes : TransportComplete(rid, out, 0)

SpecLookup == Init /\ [][NextLookup]_vars

\* ------------------------------------------------------------------ claims
\* the engine's own state: everything but the clock and the record of the
\* last call
engine == <<cache, reqs, announces, infos, calls, net, nextRid, fired, thrown,
            lastCallAt>>

\* a descriptor for (k, p) is active
Active(k, p) ==
  \E d \in DOMAIN infos :
    infos[d].key = k /\ infos[d].port = p /\ ~infos[d].stopped

\* call c has an announce request of descriptor d under way
InFlightOf(d) ==
  \E c \in DOMAIN calls : calls[c].owner = d /\ calls[c].status # "done"

\* C1: once a descriptor is stopped (stopAnnouncing or stop()), its schedule
\* starts no further announce attempt: the number of ann() invocations of a
\* stopped descriptor never grows, whether the stop met a pending timer or
\* an attempt in flight that completes later.
C1_NoAttemptAfterStop ==
  [][\A d \in DOMAIN infos :
       infos[d].stopped => infos'[d].anns = infos[d].anns]_vars

\* stopAnnouncing has just stopped a descriptor whose second attempt (started
\* by its timer) is still in flight
C1_Witness ==
  /\ ev.op = "stopAnnouncing"
  /\ \E d \in DOMAIN infos :
       /\ infos[d].stopped /\ infos[d].key = ev.key /\ infos[d].port = ev.port
       /\ infos[d].reanns >= 1
       /\ InFlightOf(d)

\* C2: a stopped descriptor has no pending timer, in every reachable state.
C2_StoppedHasNoTimer ==
  \A d \in DOMAIN infos : infos[d].stopped => ~infos[d].timeout

\* an attempt of a stopped descriptor has completed after the stop
C2_Witness ==
  \E d \in DOMAIN infos :
    infos[d].stopped /\ infos[d].late >= 1 /\ ~infos[d].timeout

\* C3: startAnnouncing(k, p) with a descriptor for (k, p) active returns
\* false and changes nothing of the engine; and no two descriptors of one
\* (key, port) pair are active together, the active ones being exactly those
\* of _announces.
C3_DuplicateStartIsNoOp ==
  /\ [](/\ \A d1, d2 \in DOMAIN infos :
             (/\ infos[d1].key = infos[d2].key /\ infos[d1].port = infos[d2].port
              /\ ~infos[d1].stopped /\ ~infos[d2].stopped) => d1 = d2
        /\ \A d \in DOMAIN infos :
             ~infos[d].stopped <=>
               (/\ AnnId(infos[d].key, infos[d].port) \in DOMAIN announces
                /\ announces[AnnId(infos[d].key, infos[d].port)] = d))
  /\ [][(ev'.op = "startAnnouncing" /\ Active(ev'.key, ev'.port))
          => (ev'.ret = "false" /\ UNCHANGED engine)]_vars

\* a second startAnnouncing returned false while the first schedule has its
\* timer pending
C3_Witness ==
  /\ ev.op = "startAnnouncing" /\ ev.ret = "false"
  /\ \E d \in DOMAIN infos :
       /\ infos[d].key = ev.key /\ infos[d].port = ev.port
       /\ ~infos[d].stopped /\ infos[d].timeout

\* C4: stopAnnouncing(k, p) with no descriptor for (k, p) active returns
\* false and changes nothing of the engine.
C4_StopWithoutDescriptorIsNoOp ==
  [][(ev'.op = "stopAnnouncing" /\ ~Active(ev'.key, ev'.port))
       => (ev'.ret = "false" /\ UNCHANGED engine)]_vars

\* stopAnnouncing returned false for a pair that was stopped before, while
\* the schedule of another pair is live with its timer pending
C4_Witness ==
  /\ ev.op = "stopAnnouncing" /\ ev.ret = "false"
  /\ \E d \in DOMAIN infos :
       infos[d].key = ev.key /\ infos[d].port = ev.port /\ infos[d].stopped
  /\ \E d \in DOMAIN infos :
       infos[d].key # ev.key /\ ~infos[d].stopped /\ infos[d].timeout

\* C5: the callback given to startAnnouncing has run exactly once as soon as
\* the first announce request of the descriptor has completed (reann has
\* run), not before, and never again on a later completion, stopped or not.
C5_CallbackOnceAtFirstCompletion ==
  \A d \in DOMAIN infos :
    infos[d].cbCount =
      IF infos[d].hadCb /\ infos[d].reanns >= 1 THEN 1 ELSE 0

\* a descriptor started with a callback has completed two announce requests
C5_Witness ==
  \E d \in DOMAIN infos :
    infos[d].hadCb /\ infos[d].reanns >= 2 /\ infos[d].cbCount = 1

\* C6: every request's callback is invoked exactly once whatever the outcome
\* of its exchanges, no exception escapes a transport completion handler and
\* no pending request stays registered once its exchange has completed.
C6_CallbackExactlyOnce ==
  /\ ~thrown
  /\ \A rid \in DOMAIN reqs : rid \in net
  /\ \A c \in DOMAIN calls :
       calls[c].owner = 0 =>
         calls[c].cbs = IF calls[c].status = "done" THEN 1 ELSE 0

\* C7: handleReply for an id that is not registered changes nothing of the
\* engine and invokes no callback, and the callback of a pending request is
\* never invoked twice, a re-entrant reply from inside it included.
C7_UnknownReplyIsNoOp ==
  /\ [](\A rid \in Rids : fired[rid] <= 1)
  /\ [][(ev'.op = "handleReply" /\ ~ev'.registered) => UNCHANGED engine]_vars

\* a request was dispatched whose callback called handleReply again for its
\* own id
C7_Witness ==
  /\ ev.op = "reentrantReply" /\ ev.registered
  /\ \E rid \in Rids : fired[rid] = 1 /\ rid \notin DOMAIN reqs

\* call c, a lookup, makes an attempt in this step: it is created, or its
\* retry timer fires
LookupAttempt(c) ==
  /\ calls'[c].type = "lookup"
  /\ \/ c \notin DOMAIN calls
     \/ calls[c].status = "retrywait" /\ calls'[c].status # "retrywait"

\* the cache holds an entry for the fingerprint that is within the age bound
LiveEntry(qhash) ==
  \E i \in 1..Len(cache) :
    cache[i].key = qhash /\ now - cache[i].born <= lruMaxAgeLookup

\* the cache holds an entry for the fingerprint that is older than the bound
StaleEntry(qhash) ==
  \E i \in 1..Len(cache) :
    cache[i].key = qhash /\ now - cache[i].born > lruMaxAgeLookup

\* this step registers a pending request and starts its exchange
Sends == nextRid' = nextRid + 1 /\ nextRid \in DOMAIN reqs' /\ nextRid \in net'

\* this step starts no exchange and registers nothing
SendsNothing == nextRid' = nextRid /\ reqs' = reqs /\ net' = net

\* C8 as stated: a lookup that is the next request after a lookup of the
\* same payload, issued within the age bound of it, starts no exchange and
\* registers nothing.
C8_BackToBackOneExchange ==
  [][\A c \in DOMAIN calls' :
       (/\ c \notin DOMAIN calls /\ c > 1
        /\ calls'[c].type = "lookup" /\ calls[c - 1].type = "lookup"
        /\ calls'[c].payload = calls[c - 1].payload
        /\ now - lastCallAt <= lruMaxAgeLookup)
       => SendsNothing]_vars

\* C8 amended: a successful lookup reply with truthy data leaves an entry for
\* the fingerprint written at that time, and a lookup issued while the cache
\* holds an entry for its fingerprint within the age bound is served from it
\* at once: no exchange, nothing registered, its callback run.
C8_LookupAfterReplyServedFromCache ==
  [][/\ \A rid \in DOMAIN reqs :
          (/\ rid \notin DOMAIN reqs' /\ reqs[rid].type = "lookup"
           /\ calls'[reqs[rid].call].status = "done"
           /\ calls'[reqs[rid].call].log # <<>>
           /\ calls'[reqs[rid].call].log[Len(calls'[reqs[rid].call].log)][1] = "null"
           /\ Truthy(calls'[reqs[rid].call].log[Len(calls'[reqs[rid].call].log)][2]))
          => \E i \in 1..Len(cache') :
               /\ cache'[i].key = reqs[rid].qhash
               /\ cache'[i].born = now
               /\ cache'[i].value =
                    calls'[reqs[rid].call].log[Len(calls'[reqs[rid].call].log)][2]
     /\ \A c \in DOMAIN calls' :
          (/\ c \notin DOMAIN calls /\ calls'[c].type = "lookup"
           /\ LiveEntry(getRequestHash("lookup", calls'[c].payload)))
          => (/\ SendsNothing
              /\ calls'[c].status = "done" /\ calls'[c].hits = 1
              /\ calls'[c].sent = 0 /\ calls'[c].cbs = 1)]_vars

\* two lookups of one key, the second issued some time after the reply to
\* the first and served from the cache: one exchange in all
C8_Witness ==
  /\ Len(calls) = 2 /\ nextRid = 2
  /\ calls[1].type = "lookup" /\ calls[2].type = "lookup"
  /\ calls[1].payload = calls[2].payload
  /\ calls[1].sent = 1 /\ calls[2].sent = 0 /\ calls[2].hits = 1
  /\ calls[2].hitAge > 0
  /\ reqs = EmptyMap

\* C9: no lookup attempt is answered from an entry older than the age bound,
\* and an attempt that meets such an entry performs a network exchange.
C9_NoAnswerFromStaleEntry ==
  /\ [](\A c \in DOMAIN calls : calls[c].hitAge <= lruMaxAgeLookup)
  /\ [][\A c \in DOMAIN calls' :
          (LookupAttempt(c) /\ StaleEntry(getRequestHash("lookup", calls'[c].payload)))
          => Sends]_vars

\* a lookup met an entry older than the bound in a full cache and went to the
\* network
C9_Witness ==
  \E c \in DOMAIN calls :
    calls[c].stale /\ calls[c].sent >= 1 /\ calls[c].hits = 0

IsErr(o) == o[1] # "null"

\* C10: the attempts of a request are made one at a time; an attempt follows
\* only failed attempts and at most n are made; the request is done exactly
\* when an attempt succeeded or n attempts failed, and then its callback has
\* received the outcome of the last attempt (the first success, or the n-th
\* error).
C10_RetryUntilFirstSuccess ==
  \A c \in DOMAIN calls :
    LET call == calls[c]
        log == call.log
        started == call.sent + call.hits
    IN /\ started <= call.times
       /\ Len(log) <= started /\ started <= Len(log) + 1
       /\ \A i \in 1..(Len(log) - 1) : IsErr(log[i])
       /\ call.status = "retrywait" =>
            (Len(log) = started /\ Len(log) < call.times /\ IsErr(log[Len(log)]))
       /\ call.status = "done" <=>
            (/\ Len(log) = started /\ Len(log) >= 1
             /\ (~IsErr(log[Len(log)]) \/ Len(log) = call.times))
       /\ (call.status = "done" /\ call.owner = 0) =>
            /\ call.cbs = 1
            /\ call.type # "lookup" => <<call.uerr, call.ures>> = log[Len(log)]
            /\ (call.type = "lookup" /\ IsErr(log[Len(log)])) =>
                 call.uerr = log[Len(log)][1]
            /\ (call.type = "lookup" /\ log[Len(log)] = <<"null", "peers">>) =>
                 (call.uerr = "null" /\ call.ures = "peers")

\* a request of three attempts failed twice with different errors and then
\* succeeded; its callback received the third attempt's result
C10_Witness ==
  \E c \in DOMAIN calls :
    /\ calls[c].times = 3 /\ calls[c].status = "done" /\ calls[c].owner = 0
    /\ Len(calls[c].log) = 3 /\ calls[c].sent = 3
    /\ IsErr(calls[c].log[1]) /\ IsErr(calls[c].log[2])
    /\ calls[c].log[1] # calls[c].log[2]
    /\ calls[c].log[3] = <<"null", "peers">>
    /\ calls[c].cbs = 1 /\ calls[c].ures = "peers"

\* the announce requests of descriptor d that are under way, in a calls value
Running(cs, d) == {c \in DOMAIN cs : cs[c].owner = d /\ cs[c].status # "done"}

\* C17: a descriptor has at most one timer pending and at most one announce
\* request under way, and never both; an attempt starts only from
\* startAnnouncing or by consuming the pending timer, and a timer is set only
\* by the completion of the attempt under way, so attempts and timers
\* alternate.
C17_TimerAndAttemptAlternate ==
  /\ [](\A d \in DOMAIN infos :
          /\ infos[d].timers <= 1
          /\ infos[d].timeout <=> infos[d].timers = 1
          /\ Cardinality(Running(calls, d)) <= 1
          /\ ~(infos[d].timers > 0 /\ Running(calls, d) # {})
          /\ infos[d].timers > 0 => infos[d].anns = infos[d].reanns
          /\ Running(calls, d) # {} => infos[d].anns = infos[d].reanns + 1)
  /\ [][\A d \in DOMAIN infos' :
          /\ (d \in DOMAIN infos /\ infos'[d].anns # infos[d].anns) =>
                (/\ infos'[d].anns = infos[d].anns + 1
                 /\ infos[d].timers = 1 /\ infos'[d].timers = 0
                 /\ Running(calls, d) = {} /\ Running(calls', d) # {})
          /\ (d \in DOMAIN infos /\ infos'[d].timers > infos[d].timers) =>
                (/\ Running(calls, d) # {} /\ Running(calls', d) = {}
                 /\ infos'[d].reanns = infos[d].reanns + 1)
          /\ d \notin DOMAIN infos =>
                (infos'[d].anns = 1 /\ infos'[d].timers = 0)]_vars

\* a schedule has gone through two whole cycles: two attempts completed and
\* the timer for the third is pending
C17_Witness ==
  \E d \in DOMAIN infos :
    /\ infos[d].anns = 2 /\ infos[d].reanns = 2 /\ infos[d].timers = 1
    /\ ~infos[d].stopped

\* descriptors d1 and d2 are of one (key, port) pair, d1 the older
SamePair(d1, d2) ==
  d1 < d2 /\ infos[d1].key = infos[d2].key /\ infos[d1].port = infos[d2].port

\* C18: when an announce request of a stopped descriptor completes while a
\* newer descriptor of the same pair is active, no timer is scheduled for the
\* old descriptor and the new descriptor and _announces are left as they
\* are; at most one descriptor of a pair is active and only an active one
\* holds a timer; and stopAnnouncing(k, p) stops the active descriptor.
C18_LateCompletionAfterRestart ==
  /\ [](\A d1, d2 \in DOMAIN infos :
          SamePair(d1, d2) => (infos[d1].stopped /\ infos[d1].timers = 0))
  /\ [][\A d1, d2 \in DOMAIN infos :
          (/\ SamePair(d1, d2) /\ ~infos[d2].stopped
           /\ infos'[d1].reanns # infos[d1].reanns)
          => (/\ infos'[d1].timers = 0 /\ ~infos'[d1].timeout
              /\ infos'[d1].stopped
              /\ infos'[d2] = infos[d2]
              /\ announces' = announces)]_vars
  /\ [][(ev'.op = "stopAnnouncing" /\ Active(ev'.key, ev'.port))
          => (/\ ev'.ret = "undefined"
              /\ AnnId(ev'.key, ev'.port) \notin DOMAIN announces'
              /\ \A d \in DOMAIN infos' :
                   (infos'[d].key = ev'.key /\ infos'[d].port = ev'.port)
                   => (infos'[d].stopped /\ infos'[d].timers = 0))]_vars

\* a pair was stopped and started again while the attempt of its first
\* descriptor was in flight, that attempt completed while the second
\* descriptor was active, and stopAnnouncing has now stopped the second
C18_Witness ==
  /\ ev.op = "stopAnnouncing" /\ ev.ret = "undefined"
  /\ \E d1, d2 \in DOMAIN infos :
       /\ SamePair(d1, d2) /\ infos[d2].key = ev.key /\ infos[d2].port = ev.port
       /\ infos[d1].lateLive = 1 /\ infos[d1].cbCount = 1
       /\ infos[d2].stopped /\ infos[d2].timers = 0

\* C19: the exchanges sent for a descriptor after it was stopped are retries
\* of the announce request that was under way at the stop: at most its
\* retry count less one (two with the default of three), and none when no
\* request was under way.
C19_RetriesAfterStop ==
  \A d \in DOMAIN infos :
    /\ infos[d].postStop <= DefaultRetry - 1
    /\ \A c \in DOMAIN calls :
         (calls[c].owner = d /\ infos[d].anns > 0 /\
            \A c2 \in DOMAIN calls : calls[c2].owner = d => c2 <= c)
         => infos[d].postStop <= calls[c].times - 1
    /\ ~infos[d].busyAtStop => infos[d].postStop = 0
    /\ ~infos[d].stopped => infos[d].postStop = 0

\* stopAnnouncing met the first exchange of an announce request in flight,
\* and both of its retries were sent afterwards
C19_Witness ==
  \E d \in DOMAIN infos :
    /\ infos[d].stopped /\ infos[d].busyAtStop
    /\ infos[d].postStop = DefaultRetry - 1
    /\ infos[d].anns = 1

\* C11: a lookup whose request ended without error, from the network or
\* from the cache, has given its callback the data unchanged when the data
\* is a non-empty array and ERR_GRAPE_LOOKUP_EMPTY with no data otherwise;
\* so no lookup callback ever receives, as a success, anything but a
\* non-empty array.
C11_LookupNeverDeliversEmpty ==
  \A c \in DOMAIN calls :
    (calls[c].type = "lookup" /\ calls[c].owner = 0) =>
      /\ (calls[c].cbs > 0 /\ calls[c].uerr = "null") =>
            calls[c].ures \in {"peers", "peers2"}
      /\ (calls[c].status = "done" /\ ~IsErr(calls[c].log[Len(calls[c].log)])) =>
            LET data == calls[c].log[Len(calls[c].log)][2] IN
            /\ calls[c].cbs = 1
            /\ data \in {"peers", "peers2"} =>
                  (calls[c].uerr = "null" /\ calls[c].ures = data)
            /\ data \notin {"peers", "peers2"} =>
                  (calls[c].uerr = "ERR_GRAPE_LOOKUP_EMPTY" /\ calls[c].ures = "undef")

\* an empty list came back from the network and was reported as
\* ERR_GRAPE_LOOKUP_EMPTY, and a second lookup was answered with the same
\* empty list from the cache and reported the same error
C11_Witness ==
  \E c1, c2 \in DOMAIN calls :
    /\ calls[c1].type = "lookup" /\ calls[c1].sent = 1
    /\ calls[c1].log = << <<"null", "empty">> >>
    /\ calls[c1].uerr = "ERR_GRAPE_LOOKUP_EMPTY"
    /\ calls[c2].type = "lookup" /\ calls[c2].sent = 0 /\ calls[c2].hits = 1
    /\ calls[c2].log = << <<"null", "empty">> >>
    /\ calls[c2].cbs = 1 /\ calls[c2].uerr = "ERR_GRAPE_LOOKUP_EMPTY"

\* C12: putMutable without data.seq gives ERR_MISSING_SEQ to its callback,
\* putMutable with data.seq but without one of the signing keys gives
\* ERR_MISSING_KEY to its callback, and either leaves the engine (registry,
\* cache, exchanges) as it was.
C12_PutMutableValidation ==
  [][ev'.op = "putMutable" =>
       /\ ev'.args[1] = "absent" =>
             (ev'.ret = "cb(ERR_MISSING_SEQ)" /\ UNCHANGED engine)
       /\ (ev'.args[1] = "one" /\ ev'.args[2] # "both") =>
             (ev'.ret = "cb(ERR_MISSING_KEY)" /\ UNCHANGED engine)]_vars

\* this step puts into the cache the entry e: one the cache did not hold
Written(e) ==
  /\ \E i \in 1..Len(cache') : cache'[i] = e
  /\ \A j \in 1..Len(cache) : cache[j] # e

\* C14: an entry is written to the cache only by the dispatch of a reply to a
\* lookup request, under that request's fingerprint, when the reply has no
\* error and non-empty data; replies to other types, error replies and
\* replies without data write nothing.
C14_CacheWrittenOnlyOnNonEmptyData ==
  [][\A i \in 1..Len(cache') :
       Written(cache'[i]) =>
         \E rid \in DOMAIN reqs :
           /\ rid \notin DOMAIN reqs'
           /\ reqs[rid].type = "lookup"
           /\ cache'[i].key = reqs[rid].qhash
           /\ LET log == calls'[reqs[rid].call].log IN
                /\ log[Len(log)] = <<"null", cache'[i].value>>
                /\ cache'[i].value \notin {"undef", "empty"}]_vars

\* C13: stop() leaves the cache empty and _announces empty, with every
\* descriptor that was active stopped and without a timer; and a lookup
\* made next, whatever was cached before, finds nothing cached and goes to
\* the network.
C13_StopClearsCacheAndSchedules ==
  /\ [][ev'.op = "stop" =>
          /\ cache' = <<>>
          /\ announces' = EmptyMap
          /\ \A d \in DOMAIN infos' :
               /\ infos'[d].stopped
               /\ infos'[d].timers = 0 /\ ~infos'[d].timeout]_vars
  /\ [][\A c \in DOMAIN calls' :
          (ev.op = "stop" /\ c \notin DOMAIN calls /\ calls'[c].type = "lookup")
          => (Sends /\ calls'[c].hits = 0 /\ calls'[c].sent = 1)]_vars

\* stop() has run after a lookup reply was cached and after a schedule had
\* set its timer: the cache is empty though a lookup was answered with peers
\* by the network, and a descriptor is stopped that completed every attempt
\* it started before the stop
C13_Witness ==
  /\ ev.op = "stop" /\ cache = <<>>
  /\ \E c \in DOMAIN calls :
       /\ calls[c].type = "lookup" /\ calls[c].sent = 1
       /\ calls[c].log = << <<"null", "peers">> >>
  /\ \E d \in DOMAIN infos :
       /\ infos[d].stopped /\ infos[d].reanns >= 1 /\ infos[d].late = 0
       /\ Running(calls, d) = {} /\ infos[d].timers = 0

\* C15: stop() leaves the registry and the outstanding exchanges as they are
\* and runs no callback; and every exchange that completes, before or after
\* a stop(), is dispatched: its request leaves the registry, its callback
\* runs once and its call receives the outcome.
C15_StopLeavesRequestsInFlight ==
  /\ [][ev'.op = "stop" =>
          /\ reqs' = reqs /\ net' = net /\ fired' = fired /\ calls' = calls
          /\ \A d \in DOMAIN infos :
               /\ infos'[d].cbCount = infos[d].cbCount
               /\ infos'[d].reanns = infos[d].reanns]_vars
  /\ [][\A rid \in net :
          (rid \notin net' /\ thrown' = thrown) =>
            /\ rid \in DOMAIN reqs /\ rid \notin DOMAIN reqs'
            /\ fired'[rid] = fired[rid] + 1
            /\ Len(calls'[reqs[rid].call].log) = Len(calls[reqs[rid].call].log) + 1]_vars

\* the first announce request of a schedule was in flight when stop() ran;
\* its reply came afterwards and reached reann and the caller's callback
C15_Witness ==
  \E d \in DOMAIN infos :
    /\ infos[d].stopped /\ infos[d].busyAtStop
    /\ infos[d].anns = 1 /\ infos[d].reanns = 1 /\ infos[d].late = 1
    /\ infos[d].hadCb /\ infos[d].cbCount = 1
    /\ reqs = EmptyMap

\* C16 as stated: every delay computed lies in [0.5 * interval,
\* 1.5 * interval].
C16_DelayWithinInterval ==
  ms # 0 => (interval <= 2 * ms /\ 2 * ms <= 3 * interval)

\* C16 amended: every delay computed is at least 0.5 * interval and at most
\* 1.5 * interval rounded up: within [0.5 * interval, 1.5 * interval] for an
\* even interval, and at most half a millisecond above it for an odd one.
C16_DelayWithinCeiledInterval ==
  ms # 0 =>
    /\ interval <= 2 * ms
    /\ 2 * ms <= 3 * interval + 1
    /\ interval % 2 = 0 => 2 * ms <= 3 * interval

\* a delay above 1.5 * interval was computed for an odd interval
C16_Witness ==
  interval % 2 = 1 /\ interval > 1 /\ 2 * ms = 3 * interval + 1

\* C20: the registry holds exactly the requests whose exchange is
\* outstanding; an entry is added only together with the exchange it stands
\* for and removed only by the dispatch of that exchange's completion; and
\* when every exchange completes, the registry is empty in the end.
C20_RegistryDrains ==
  /\ [](DOMAIN reqs = net)
  /\ [][/\ \A rid \in (DOMAIN reqs') \ (DOMAIN reqs) :
            rid = nextRid /\ Sends /\ rid \notin net
        /\ \A rid \in (DOMAIN reqs) \ (DOMAIN reqs') :
            fired'[rid] = fired[rid] + 1 /\ rid \notin net']_vars
  /\ <>[](reqs = EmptyMap)

====
